---- MODULE Spec2Model ----
(***************************************************************************)
(* A model of zuniq (AdiPat/zuniq), the line deduplication engine.         *)
(*                                                                         *)
(* Texts are sequences of characters.  The alphabet holds two spellings of *)
(* one letter ("a" and "A"), the line-feed and the carriage return, which  *)
(* is what the comparison, counting and newline rules of the engine tell   *)
(* apart.  The alphabet holds no digit, so the property order of a         *)
(* JavaScript object (Object.keys) is the insertion order of its keys, and *)
(* no line spells a property of Object.prototype.                          *)
(*                                                                         *)
(* A behaviour is one call of zuniq: the initial state holds the options   *)
(* and the file system, a step runs the call to its return or its throw.   *)
(***************************************************************************)
EXTENDS Integers, Sequences, FiniteSets, TLC

LF == "\n"
CR == "\r"

Alphabet == {"a", "A", LF, CR}

\* Longest content given to the text transformations.
MaxLen == 5
\* Longest text used where the call also touches the file system.
MaxIOLen == 2

RECURSIVE TextsOfLen(_)
TextsOfLen(n) ==
  IF n = 0 THEN {<<>>}
  ELSE {Append(t, c) : t \in TextsOfLen(n - 1), c \in Alphabet}

TextsUpTo(n) == UNION {TextsOfLen(k) : k \in 0..n}

-----------------------------------------------------------------------------
(* String primitives of the JavaScript runtime, as the source uses them.   *)

\* String.prototype.toLowerCase
LowerChar(c) == IF c = "A" THEN "a" ELSE c
toLowerCase(s) == [i \in 1..Len(s) |-> LowerChar(s[i])]

\* line.replace(/\r/g, "")
StripCR(s) == SelectSeq(s, LAMBDA c : c # CR)

\* String.prototype.split("\n"): the pieces between line-feeds; a text with
\* n line-feeds has n + 1 pieces, the empty text has the one piece "".
RECURSIVE SplitFrom(_, _, _)
SplitFrom(s, i, cur) ==
  IF i > Len(s) THEN <<cur>>
  ELSE IF s[i] = LF THEN <<cur>> \o SplitFrom(s, i + 1, <<>>)
  ELSE SplitFrom(s, i + 1, Append(cur, s[i]))

Split(s) == SplitFrom(s, 1, <<>>)

\* Array.prototype.join("\n")
RECURSIVE Join(_)
Join(lines) ==
  IF Len(lines) = 0 THEN <<>>
  ELSE IF Len(lines) = 1 THEN lines[1]
  ELSE lines[1] \o <<LF>> \o Join(Tail(lines))

\* content.replace(/\n+/g, "\n"): every run of line-feeds becomes one.
CollapseLF(s) ==
  LET keep == {i \in 1..Len(s) : ~(s[i] = LF /\ i > 1 /\ s[i - 1] = LF)}
      F[i \in 0..Len(s)] ==
        IF i = 0 THEN <<>>
        ELSE IF i \in keep THEN Append(F[i - 1], s[i]) ELSE F[i - 1]
  IN  F[Len(s)]

\* The white space String.prototype.trimEnd removes, within the alphabet.
WhiteSpace == {LF, CR}

\* String.prototype.trimEnd
RECURSIVE trimEnd(_)
trimEnd(s) ==
  IF Len(s) > 0 /\ s[Len(s)] \in WhiteSpace
  THEN trimEnd(SubSeq(s, 1, Len(s) - 1))
  ELSE s

\* Whether the whole of s matches (\n+|\r\n+).
IsNewlineRun(s) ==
  /\ Len(s) >= 1
  /\ \/ \A i \in 1..Len(s) : s[i] = LF
     \/ /\ Len(s) >= 2
        /\ s[1] = CR
        /\ \A i \in 2..Len(s) : s[i] = LF

\* trailingNewlinesRegex = /(\n+|\r\n+)$/ : where its match in s starts (the
\* leftmost position whose suffix matches), 0 when there is no match.
trailingNewlinesRegex(s) ==
  LET starts == {i \in 1..Len(s) : IsNewlineRun(SubSeq(s, i, Len(s)))}
  IN  IF starts = {} THEN 0
      ELSE CHOOSE i \in starts : \A j \in starts : i <= j

-----------------------------------------------------------------------------
(* Default Dedup.                                                          *)

getTrailingNewlinesCount(content) ==
  LET m == trailingNewlinesRegex(content)
  IN  IF m = 0 THEN 0 ELSE Len(content) - m + 1

updateTrailingNewlines(content, trailingNewlinesCount) ==
  LET c == CollapseLF(content)
      m == trailingNewlinesRegex(c)
  IN  IF trailingNewlinesCount >= 1
      THEN (IF m = 0 THEN c ELSE Append(SubSeq(c, 1, m - 1), LF))
      ELSE trimEnd(c)

\* line is the carriage-return-stripped line at index; lines holds the lines
\* as split (indices from 1 here, from 0 in the source).
compareLineWithPreviousLine(line, index, lines, ignoreCase) ==
  IF ignoreCase
  THEN index = 1 \/ toLowerCase(lines[index - 1]) # toLowerCase(line)
  ELSE index = 1 \/ lines[index - 1] # line

\* The callback of lines.filter in processContent.
KeepLine(lines, index, ignoreCase) ==
  LET line == StripCR(lines[index])
  IN  IF line = <<>> THEN TRUE
      ELSE compareLineWithPreviousLine(line, index, lines, ignoreCase)

\* Array.prototype.filter with KeepLine: the kept lines, in order.
uniqueLines(lines, ignoreCase) ==
  LET F[i \in 0..Len(lines)] ==
        IF i = 0 THEN <<>>
        ELSE IF KeepLine(lines, i, ignoreCase)
             THEN Append(F[i - 1], lines[i]) ELSE F[i - 1]
  IN  F[Len(lines)]

processContent(content, ignoreCase) ==
  updateTrailingNewlines(Join(uniqueLines(Split(content), ignoreCase)),
                         getTrailingNewlinesCount(content))

-----------------------------------------------------------------------------
(* The count table (LineCount) and the count decoration.                   *)
(* A table is the sequence of its entries in property order, which is the  *)
(* order in which the keys were first assigned.                            *)

\* What a lookup of a missing key yields (the JavaScript value undefined).
Undefined == -1

Keys(table) == [i \in 1..Len(table) |-> table[i].key]

HasKey(table, key) == \E i \in 1..Len(table) : table[i].key = key

\* table[key]
Lookup(table, key) ==
  IF HasKey(table, key)
  THEN table[CHOOSE i \in 1..Len(table) : table[i].key = key].n
  ELSE Undefined

\* table[key] = n
Assign(table, key, n) ==
  IF HasKey(table, key)
  THEN [i \in 1..Len(table) |->
          IF table[i].key = key THEN [key |-> key, n |-> n] ELSE table[i]]
  ELSE Append(table, [key |-> key, n |-> n])

\* The last key whose lower-cased form is that of line, "" when there is none.
findLineKey(caseInsensitiveLinesCount, line) ==
  LET t == caseInsensitiveLinesCount
      hits == {i \in 1..Len(t) : toLowerCase(t[i].key) = toLowerCase(line)}
  IN  IF hits = {} THEN <<>>
      ELSE t[CHOOSE i \in hits : \A j \in hits : j <= i].key

\* One turn of the forEach of buildCaseInsensitiveLinesCount.  The empty key
\* is falsy, so an empty line is assigned 1 each time it is met.
CaseInsensitiveStep(table, line) ==
  LET lineKey == findLineKey(table, toLowerCase(line))
  IN  IF lineKey # <<>>
      THEN Assign(table, lineKey, Lookup(table, lineKey) + 1)
      ELSE Assign(table, line, 1)

buildCaseInsensitiveLinesCount(rawContent) ==
  LET lines == Split(rawContent)
      F[i \in 0..Len(lines)] ==
        IF i = 0 THEN <<>> ELSE CaseInsensitiveStep(F[i - 1], lines[i])
  IN  F[Len(lines)]

\* linesCount[line] = (linesCount[line] || 0) + 1
CaseSensitiveStep(table, line) ==
  Assign(table, line,
         (IF HasKey(table, line) THEN Lookup(table, line) ELSE 0) + 1)

buildCaseSensitiveLineCount(rawContent) ==
  LET lines == Split(rawContent)
      F[i \in 0..Len(lines)] ==
        IF i = 0 THEN <<>> ELSE CaseSensitiveStep(F[i - 1], lines[i])
  IN  F[Len(lines)]

\* The flag selects the case-insensitive table when it is true.
buildLinesCount(rawContent, caseSensitive) ==
  IF caseSensitive
  THEN buildCaseInsensitiveLinesCount(rawContent)
  ELSE buildCaseSensitiveLineCount(rawContent)

Digits == <<"0", "1", "2", "3", "4", "5", "6", "7", "8", "9">>

\* A count as a template literal prints it: decimal digits, or "undefined".
RECURSIVE NumberToString(_)
NumberToString(n) ==
  IF n = Undefined THEN <<"u", "n", "d", "e", "f", "i", "n", "e", "d">>
  ELSE IF n < 10 THEN <<Digits[n + 1]>>
  ELSE Append(NumberToString(n \div 10), Digits[(n % 10) + 1])

\* `${count} ${line}`
CountedLine(count, line) == NumberToString(count) \o <<" ">> \o line

getOutputWithCount(rawContent, linesCount, countEnabled) ==
  LET outputLines == Split(rawContent)
      count(line) ==
        IF countEnabled
        THEN Lookup(linesCount, findLineKey(linesCount, line))
        ELSE Lookup(linesCount, line)
  IN  Join([i \in 1..Len(outputLines) |->
              CountedLine(count(outputLines[i]), outputLines[i])])

\* Array.from(new Set(lines)): each line once, in order of first occurrence.
Distinct(lines) ==
  LET F[i \in 0..Len(lines)] ==
        IF i = 0 THEN <<>>
        ELSE IF \E j \in 1..(i - 1) : lines[j] = lines[i]
             THEN F[i - 1] ELSE Append(F[i - 1], lines[i])
  IN  F[Len(lines)]

\* processRepeatedLines once the raw content is resolved.
RepeatedLines(rawContent, count, ignoreCase) ==
  LET lines == Split(rawContent)
      linesCount == buildLinesCount(rawContent, ignoreCase)
      repeatedLines ==
        IF ignoreCase
        THEN SelectSeq(Keys(linesCount), LAMBDA k : Lookup(linesCount, k) > 1)
        ELSE SelectSeq(lines, LAMBDA l : Lookup(linesCount, l) > 1)
      outText == Join(Distinct(repeatedLines))
  IN  IF count THEN getOutputWithCount(outText, linesCount, count) ELSE outText

-----------------------------------------------------------------------------
(* The call zuniq(opts) and the file system it runs against.               *)

VARIABLES
  opts,      \* the options of the call (an absent or empty string is <<>>)
  env,       \* the file system before the call
  sink,      \* the file at the output path
  pc,        \* "called", then "returned" or "raised"
  out,       \* the out field of the returned result
  error,     \* the error the call raised, "none" when none
  warnings,  \* the number of console.warn calls
  reads,     \* the number of fs.readFile calls
  linesCount \* the count table the call built, empty when it built none

vars == <<opts, env, sink, pc, out, error, warnings, reads, linesCount>>

NoPath == <<>>
InPath == <<"i">>
OutPath == <<"o">>

\* The states of the output path before the call: no file there and one can
\* be created, no file and none can be created, a file, a file that cannot
\* be written.
OutKinds == {"absent", "uncreatable", "present", "readonly"}

\* What a file already at the output path holds before the call.
OldText == <<"A", LF, "A">>

\* assertFileExists(filePath) as .then(() => true).catch(() => false)
FileExists(filePath, e) == filePath # NoPath /\ e.inExists

\* What a step of the call hands on: the error it raised, the text it made,
\* the warnings and reads it caused and the count table it built.
Ok(text, w, r) ==
  [error |-> "none", text |-> text, warnings |-> w, reads |-> r,
   table |-> <<>>]
Fail(kind, w, r) ==
  [error |-> kind, text |-> <<>>, warnings |-> w, reads |-> r, table |-> <<>>]

getRawContent(filePath, content, e) ==
  LET fileExists == FileExists(filePath, e)
  IN  IF fileExists /\ content = <<>> THEN Ok(e.inText, 0, 1)
      ELSE IF ~fileExists /\ content # <<>> THEN Ok(content, 1, 0)
      ELSE IF fileExists /\ content # <<>> THEN Fail("ConflictingInputs", 0, 0)
      ELSE Ok(<<>>, 0, 0)

processRepeatedLines(filePath, content, count, ignoreCase, e) ==
  LET raw == getRawContent(filePath, content, e)
  IN  IF raw.error # "none" THEN raw
      ELSE [Ok(RepeatedLines(raw.text, count, ignoreCase),
               raw.warnings, raw.reads)
              EXCEPT !.table = buildLinesCount(raw.text, ignoreCase)]

processFilePathAndContent(filePath, content, ignoreCase, e) ==
  IF FileExists(filePath, e) THEN Fail("ConflictingInputs", 0, 0)
  ELSE Ok(processContent(content, ignoreCase), 1, 0)

\* The branch of zuniq that reads the file at opts.filePath.
ProcessFile(o, e) ==
  IF ~FileExists(o.filePath, e) THEN Fail("InvalidPath", 0, 0)
  ELSE Ok(processContent(e.inText, o.ignoreCase), 0, 1)

\* The count step of zuniq on the result r of the dedup step.
CountStep(o, e, r) ==
  IF r.error # "none" \/ ~o.count THEN r
  ELSE LET raw == getRawContent(o.filePath, o.content, e)
       IN  IF raw.error # "none"
           THEN Fail(raw.error, r.warnings + raw.warnings, r.reads + raw.reads)
           ELSE [Ok(getOutputWithCount(r.text,
                                       buildLinesCount(raw.text, FALSE),
                                       o.count),
                    r.warnings + raw.warnings, r.reads + raw.reads)
                   EXCEPT !.table = buildLinesCount(raw.text, FALSE)]

\* writeToOutputFile: the error it raises and the file it leaves.
writeToOutputFile(kind, file, content) ==
  IF kind = "uncreatable" THEN [error |-> "InvalidPath", file |-> file]
  ELSE IF kind = "readonly" THEN [error |-> "IOError", file |-> file]
  ELSE [error |-> "none", file |-> [exists |-> TRUE, text |-> content]]

\* Whether the result of the call reaches writeToOutputFile.
WritesOutput(o, r) == r.error = "none" /\ o.outputPath # NoPath

\* The end of a call of zuniq whose result so far is r and which writes the
\* output file when toSink holds.
Finish(r, toSink) ==
  LET w == writeToOutputFile(env.outKind, sink, r.text)
      err == IF r.error # "none" THEN r.error
             ELSE IF toSink THEN w.error ELSE "none"
  IN  /\ pc = "called"
      /\ error' = err
      /\ pc' = IF err = "none" THEN "returned" ELSE "raised"
      /\ out' = IF err = "none" THEN r.text ELSE <<>>
      /\ sink' = IF r.error = "none" /\ toSink THEN w.file ELSE sink
      /\ warnings' = warnings + r.warnings
      /\ reads' = reads + r.reads
      /\ linesCount' = r.table
      /\ UNCHANGED <<opts, env>>

\* The mode check with its second operand negated.
RepeatedAndUniqueNegated(o) == o.repeated /\ ~o.unique

\* if (opts.repeated && opts.unique)
RepeatedAndUnique(o) == o.repeated /\ o.unique

ZuniqRepeatedAndUnique ==
  /\ RepeatedAndUnique(opts)
  /\ Finish(Ok(<<>>, 1, 0), FALSE)

ZuniqRepeated ==
  /\ ~RepeatedAndUnique(opts)
  /\ opts.repeated
  /\ Finish(processRepeatedLines(opts.filePath, opts.content, opts.count,
                                 opts.ignoreCase, env), FALSE)

\* The rest of zuniq once the dedup step gave r.
Default(r) ==
  LET c == CountStep(opts, env, r)
  IN  Finish(c, WritesOutput(opts, c))

ZuniqFilePathAndContent ==
  /\ ~RepeatedAndUnique(opts)
  /\ ~opts.repeated
  /\ opts.filePath # NoPath /\ opts.content # <<>>
  /\ Default(processFilePathAndContent(opts.filePath, opts.content,
                                       opts.ignoreCase, env))

ZuniqContent ==
  /\ ~RepeatedAndUnique(opts)
  /\ ~opts.repeated
  /\ ~(opts.filePath # NoPath /\ opts.content # <<>>)
  /\ opts.content # <<>>
  /\ Default(Ok(processContent(opts.content, opts.ignoreCase), 0, 0))

ZuniqFile ==
  /\ ~RepeatedAndUnique(opts)
  /\ ~opts.repeated
  /\ ~(opts.filePath # NoPath /\ opts.content # <<>>)
  /\ opts.content = <<>>
  /\ Default(ProcessFile(opts, env))

Next ==
  \/ ZuniqRepeatedAndUnique
  \/ ZuniqRepeated
  \/ ZuniqFilePathAndContent
  \/ ZuniqContent
  \/ ZuniqFile

\* Where the text of a call comes from.
Sources == {"content", "file", "contentAndMissingPath", "contentAndFile",
            "missingPath", "none"}

Options(source, text, outputPath, count, repeated, unique, ignoreCase) ==
  [filePath |-> IF source \in {"content", "none"} THEN NoPath ELSE InPath,
   content |-> IF source \in {"content", "contentAndMissingPath",
                              "contentAndFile"} THEN text ELSE <<>>,
   outputPath |-> outputPath,
   count |-> count, repeated |-> repeated, unique |-> unique,
   ignoreCase |-> ignoreCase]

Environment(source, text, outKind) ==
  [inExists |-> source \in {"file", "contentAndFile"},
   inText |-> IF source \in {"file", "contentAndFile"} THEN text ELSE <<>>,
   outKind |-> outKind]

\* The file at the output path before the call.
InitialSink(e) ==
  [exists |-> e.outKind \in {"present", "readonly"},
   text |-> IF e.outKind \in {"present", "readonly"} THEN OldText ELSE <<>>]

InitCall(o, e) ==
  /\ opts = o
  /\ env = e
  /\ sink = InitialSink(e)
  /\ pc = "called"
  /\ out = <<>>
  /\ error = "none"
  /\ warnings = 0
  /\ reads = 0
  /\ linesCount = <<>>

\* Calls of every shape on short texts.
InitIO ==
  \E source \in Sources, text \in TextsUpTo(MaxIOLen),
     outputPath \in {NoPath, OutPath}, outKind \in OutKinds,
     count \in BOOLEAN, repeated \in BOOLEAN, unique \in BOOLEAN,
     ignoreCase \in BOOLEAN :
    InitCall(Options(source, text, outputPath, count, repeated, unique,
                     ignoreCase),
             Environment(source, text, outKind))

\* Calls on longer content, with no file involved.
InitText ==
  \E text \in TextsUpTo(MaxLen),
     count \in BOOLEAN, repeated \in BOOLEAN, ignoreCase \in BOOLEAN :
    InitCall(Options("content", text, NoPath, count, repeated, FALSE,
                     ignoreCase),
             Environment("content", text, "absent"))

Init == InitIO \/ InitText

Spec == Init /\ [][Next]_vars

-----------------------------------------------------------------------------
(* Vocabulary of the properties.                                           *)

\* The text the call resolved as its input.
RawText == IF opts.content # <<>> THEN opts.content ELSE env.inText

RawLines == Split(RawText)

\* The call returned from the Default Dedup path.
DefaultReturned ==
  pc = "returned" /\ ~opts.repeated

\* The call returned the Default Dedup text undecorated.
PlainReturned == DefaultReturned /\ ~opts.count

Fold(s, ignoreCase) == IF ignoreCase THEN toLowerCase(s) ELSE s

ExactCount(lines, l) == Cardinality({j \in 1..Len(lines) : lines[j] = l})

FoldCount(lines, l, ignoreCase) ==
  Cardinality({j \in 1..Len(lines) :
                 Fold(lines[j], ignoreCase) = Fold(l, ignoreCase)})

\* The lines of s at the indices in K, in order.
Restrict(s, K) ==
  LET F[i \in 0..Len(s)] ==
        IF i = 0 THEN <<>>
        ELSE IF i \in K THEN Append(F[i - 1], s[i]) ELSE F[i - 1]
  IN  F[Len(s)]

EndsWithLF(t) == Len(t) > 0 /\ t[Len(t)] = LF

\* The lines of t without the empty piece a terminating line-feed leaves.
LinesOf(t) ==
  IF EndsWithLF(t) THEN SubSeq(Split(t), 1, Len(Split(t)) - 1) ELSE Split(t)

\* The output cannot fail to be written.
SinkUsable == opts.outputPath = NoPath \/ env.outKind \in {"absent", "present"}

-----------------------------------------------------------------------------
(* C1: in Default Dedup the line at position i of the split input is kept  *)
(* if and only if it is empty once its carriage returns are removed, or it *)
(* is the first line, or its carriage-return-stripped form differs from    *)
(* the carriage-return-stripped form of the line before it (both           *)
(* lower-cased under ignoreCase).                                          *)
C1_KeptIffDiffersFromPrevious ==
  DefaultReturned =>
    \A i \in 1..Len(RawLines) :
      KeepLine(RawLines, i, opts.ignoreCase) <=>
        \/ StripCR(RawLines[i]) = <<>>
        \/ i = 1
        \/ Fold(StripCR(RawLines[i]), opts.ignoreCase)
             # Fold(StripCR(RawLines[i - 1]), opts.ignoreCase)

(* C2: with count in Default Dedup, every line of the deduplicated output  *)
(* is prefixed with the number of lines of the raw input exactly equal to  *)
(* it.                                                                     *)
C2_CountIsExactOccurrences ==
  (DefaultReturned /\ opts.count) =>
    LET kept == Split(processContent(RawText, opts.ignoreCase))
    IN  out = Join([i \in 1..Len(kept) |->
                      CountedLine(ExactCount(RawLines, kept[i]), kept[i])])

(* C3: under ignoreCase two lines that differ only in letter case are      *)
(* duplicates for the adjacency test of Default Dedup, and in the count    *)
(* table the call uses they fall under one key, spelled as first seen,     *)
(* whose count is the number of lines of that spelling in any case.        *)
C3_CaseFoldConsistency ==
  (pc = "returned" /\ opts.ignoreCase /\ ~(opts.repeated /\ opts.unique)) =>
    LET differOnlyInCase(x, y) == x # y /\ toLowerCase(x) = toLowerCase(y)
        first(l) == RawLines[CHOOSE i \in 1..Len(RawLines) :
                      /\ toLowerCase(RawLines[i]) = toLowerCase(l)
                      /\ \A j \in 1..(i - 1) :
                           toLowerCase(RawLines[j]) # toLowerCase(l)]
        keysOf(l) == {k \in 1..Len(linesCount) :
                        toLowerCase(linesCount[k].key) = toLowerCase(l)}
    IN  /\ ~opts.repeated =>
             \A i \in 2..Len(RawLines) :
               differOnlyInCase(RawLines[i - 1], RawLines[i]) =>
                 ~KeepLine(RawLines, i, TRUE)
        /\ (opts.repeated \/ opts.count) =>
             \A i, j \in 1..Len(RawLines) :
               differOnlyInCase(RawLines[i], RawLines[j]) =>
                 /\ Cardinality(keysOf(RawLines[i])) = 1
                 /\ \A k \in keysOf(RawLines[i]) :
                      /\ linesCount[k].key = first(RawLines[i])
                      /\ linesCount[k].n = FoldCount(RawLines, RawLines[i], TRUE)

(* C4: in repeated-only mode without count the output is the lines whose   *)
(* occurrence count over the whole input (exact, or case-folded under      *)
(* ignoreCase) exceeds 1, empty lines included, each once in order of      *)
(* first occurrence and in its first-seen spelling, joined by line-feeds.  *)
C4_RepeatedOnlyOutput ==
  (pc = "returned" /\ opts.repeated /\ ~opts.unique /\ ~opts.count) =>
    LET ic == opts.ignoreCase
        firsts == {i \in 1..Len(RawLines) :
                     /\ \A j \in 1..(i - 1) :
                          Fold(RawLines[j], ic) # Fold(RawLines[i], ic)
                     /\ FoldCount(RawLines, RawLines[i], ic) > 1}
    IN  out = Join(Restrict(RawLines, firsts))

(* C5: Default Dedup is idempotent, and its output never holds two         *)
(* adjacent equal non-empty lines.                                         *)
C5_Idempotent ==
  PlainReturned =>
    /\ processContent(out, opts.ignoreCase) = out
    /\ \A i \in 2..Len(Split(out)) :
         Split(out)[i] # <<>> =>
           Fold(Split(out)[i], opts.ignoreCase)
             # Fold(Split(out)[i - 1], opts.ignoreCase)

(* C6: Default Dedup retains every blank line: carriage returns aside, the *)
(* lines of the output are the lines of the input less some non-empty      *)
(* lines, every empty line of the input staying where it was among the     *)
(* kept lines.                                                             *)
C6_BlankLinesRetained ==
  PlainReturned =>
    LET L == LinesOf(RawText)
        O == LinesOf(out)
        blanks == {i \in 1..Len(L) : L[i] = <<>>}
        bare(lines) == [i \in 1..Len(lines) |-> StripCR(lines[i])]
    IN  \E K \in SUBSET (1..Len(L)) :
          blanks \subseteq K /\ bare(O) = bare(Restrict(L, K))

(* C7: an input that ends with a line-feed gives an output that ends with  *)
(* exactly one line-feed; an input that does not gives an output with no   *)
(* trailing white space.                                                   *)
C7_NewlineShape ==
  PlainReturned =>
    IF EndsWithLF(RawText)
    THEN /\ EndsWithLF(out)
         /\ Len(out) >= 2 => out[Len(out) - 1] # LF
    ELSE out = <<>> \/ out[Len(out)] \notin WhiteSpace

(* C8: input resolution follows one table in every mode: an existing file  *)
(* and content fail with ConflictingInputs; a missing path and content     *)
(* warn and process the content; an existing file alone is processed;      *)
(* content alone is processed without a warning; no content and no         *)
(* existing file fail with InvalidPath.                                    *)
C8_OneResolutionTable ==
  (pc # "called" /\ ~(opts.repeated /\ opts.unique) /\ SinkUsable) =>
    LET exists == FileExists(opts.filePath, env)
        given == opts.content # <<>>
        processed(text) ==
          IF opts.repeated
          THEN RepeatedLines(text, opts.count, opts.ignoreCase)
          ELSE IF opts.count
          THEN getOutputWithCount(processContent(text, opts.ignoreCase),
                                  buildLinesCount(text, FALSE), TRUE)
          ELSE processContent(text, opts.ignoreCase)
    IN  /\ (exists /\ given) =>
             pc = "raised" /\ error = "ConflictingInputs"
        /\ (opts.filePath # NoPath /\ ~exists /\ given) =>
             pc = "returned" /\ warnings >= 1 /\ out = processed(opts.content)
        /\ (exists /\ ~given) =>
             pc = "returned" /\ out = processed(env.inText)
        /\ (opts.filePath = NoPath /\ given) =>
             pc = "returned" /\ warnings = 0 /\ out = processed(opts.content)
        /\ (~exists /\ ~given) =>
             pc = "raised" /\ error = "InvalidPath"

(* C9: when an output path is given and the call returns, in every mode,   *)
(* the file at the output path exists and holds exactly the returned text. *)
C9_OutputFileHoldsResult ==
  (pc = "returned" /\ opts.outputPath # NoPath
     /\ ~(opts.repeated /\ opts.unique)) =>
    sink.exists /\ sink.text = out

(* C10: when repeated and unique are both set, whatever the other options, *)
(* the call warns and returns the empty text; it raises nothing, reads no  *)
(* input and leaves the file at the output path as it was.                 *)
C10_RepeatedAndUniqueIsEmpty ==
  (pc # "called" /\ opts.repeated /\ opts.unique) =>
    /\ pc = "returned"
    /\ error = "none"
    /\ out = <<>>
    /\ warnings = 1
    /\ reads = 0
    /\ sink = InitialSink(env)

\* A call with both flags, an existing input file, content as well and a
\* writable output file, which has returned.
C10_Witness ==
  /\ pc = "returned"
  /\ opts.repeated /\ opts.unique
  /\ FileExists(opts.filePath, env) /\ opts.content # <<>>
  /\ opts.count
  /\ opts.outputPath # NoPath /\ env.outKind = "present"

====
